---- MODULE Spec2Model ----
(***************************************************************************)
(* Model of midi-parse: the raw MIDI message decoder (messages.rs), the    *)
(* note arithmetic (music.rs) and the scale / chord builders               *)
(* (music/scale.rs).  Every operation of the library is a pure function;   *)
(* a behaviour of the model is one call: Init draws the operation and its  *)
(* arguments, the operation's action applies it and stores what the call   *)
(* produced (a value, or the panic that aborted it).                       *)
(***************************************************************************)
EXTENDS Integers, Sequences, FiniteSets, TLC

VARIABLES
    pc,     \* "call": the arguments are drawn, "done": the call has ended
    op,     \* the operation called
    build,  \* "debug": overflow checks on (panic), "release": off (wrap)
    arg,    \* the arguments of the call
    res     \* the outcome of the call

vars == <<pc, op, build, arg, res>>

(***************************************************************************)
(* Bounds of the model.                                                    *)
(***************************************************************************)
\* longest data vector of a raw message (Vec<u8> has no bound of its own)
MaxDataLen == 3
\* largest time stamp drawn
MaxStamp == 1

\* u8
Byte == 0..255

\* the data bytes drawn at (0-based) position i of a message: at position 1,
\* where the Control Change arm looks for a reserved controller number, an
\* ordinary value and the neighbourhood of 0x79..0x7F; elsewhere a low and
\* a high value
DataBytesAt(i) == IF i = 1 THEN {100} \cup (120..127) ELSE {0, 60}

Builds == {"debug", "release"}

\* the outcome of a call aborted by a panic (index out of bounds, unwrap of
\* None / Err, arithmetic overflow with overflow checks on)
Panic == [tag |-> "panic"]

\* the data vectors of length n drawn
RECURSIVE DataVecs(_)
DataVecs(n) ==
    IF n = 0 THEN {<<>>}
    ELSE {Append(s, x) : s \in DataVecs(n - 1), x \in DataBytesAt(n - 1)}

(***************************************************************************)
(* conversions::encode_hex and u8::from_str_radix                          *)
(***************************************************************************)
HexChars == <<"0", "1", "2", "3", "4", "5", "6", "7",
              "8", "9", "a", "b", "c", "d", "e", "f">>

\* two lowercase hexadecimal characters per byte
RECURSIVE EncodeHex(_)
EncodeHex(bytes) ==
    IF bytes = <<>> THEN <<>>
    ELSE <<HexChars[(Head(bytes) \div 16) + 1], HexChars[(Head(bytes) % 16) + 1]>>
         \o EncodeHex(Tail(bytes))

\* value of one character in radix 16, -1 when it is no digit
HexValue(c) ==
    IF \E i \in 1..16 : HexChars[i] = c
    THEN (CHOOSE i \in 1..16 : HexChars[i] = c) - 1
    ELSE -1

RECURSIVE HexFold(_, _)
HexFold(s, acc) ==
    IF s = <<>> THEN acc
    ELSE IF acc < 0 \/ HexValue(Head(s)) < 0 THEN -1
    ELSE IF acc * 16 + HexValue(Head(s)) > 255 THEN -1
    ELSE HexFold(Tail(s), acc * 16 + HexValue(Head(s)))

\* u8::from_str_radix(s, 16): the value, or -1 for Err (empty, a character
\* that is no digit, a value above u8::MAX)
FromStrRadix16(s) == IF s = <<>> THEN -1 ELSE HexFold(s, 0)

(***************************************************************************)
(* messages.rs: Status, Data, Raw, Midi                                    *)
(***************************************************************************)
\* enum Status, in declaration order (the discriminants are 0..7)
Status == <<"NoteOff", "NoteOn", "PolyphonicKeyPressure", "ControlChange",
            "ProgramChange", "ChannelPressure", "PitchBend", "Unknown">>

\* enum Data: a variant carrying a byte, and a variant carrying nothing
DataOf(kind, v) == [kind |-> kind, val |-> v]
DataUnit(kind) == [kind |-> kind]
DataNone == DataUnit("None")

\* message::Raw::new
RawNew(stamp, status, data) == [stamp |-> stamp, status |-> status, data |-> data]

\* message::Midi, as the value a call of parse returns
Midi(channel, stamp, status, data) ==
    [tag |-> "ok", channel |-> channel, stamp |-> stamp, status |-> status, data |-> data]

\* self.data[i] (0-based) is in bounds
InBounds(data, i) == i < Len(data)
\* self.data[i] (0-based), read only where InBounds
At(data, i) == data[i + 1]

\* u8::from_str_radix(&status_hex[1..], 16).unwrap() evaluates without panic
ChannelOk(status_hex) == FromStrRadix16(Tail(status_hex)) >= 0
Channel(status_hex) == FromStrRadix16(Tail(status_hex))

\* an arm that reads data[0] and data[1]
TwoByteArm(self, status_hex, status, k0, k1) ==
    IF ~ChannelOk(status_hex) \/ ~InBounds(self.data, 0) \/ ~InBounds(self.data, 1)
    THEN Panic
    ELSE Midi(Channel(status_hex), self.stamp, status,
              <<DataOf(k0, At(self.data, 0)), DataOf(k1, At(self.data, 1))>>)

\* an arm that reads data[0] only
OneByteArm(self, status_hex, status, k0) ==
    IF ~ChannelOk(status_hex) \/ ~InBounds(self.data, 0)
    THEN Panic
    ELSE Midi(Channel(status_hex), self.stamp, status,
              <<DataOf(k0, At(self.data, 0)), DataNone>>)

\* a channel-mode arm: channel 16, one marker that carries nothing
ModeArm(self, marker) ==
    Midi(16, self.stamp, "ControlChange", <<DataUnit(marker), DataNone>>)

\* the "7a" arm: the marker carries self.data[2]
LocalControlArm(self) ==
    IF ~InBounds(self.data, 2) THEN Panic
    ELSE Midi(16, self.stamp, "ControlChange",
              <<DataOf("LocalControl", At(self.data, 2)), DataNone>>)

\* the "b" arm: the inner match on encode_hex(&[self.data[1]])
ControlChangeArm(self, status_hex) ==
    IF ~InBounds(self.data, 1) THEN Panic
    ELSE LET ctl == EncodeHex(<<At(self.data, 1)>>)
         IN  CASE ctl = <<"7", "9">> -> ModeArm(self, "ResetAllControllers")
               [] ctl = <<"7", "a">> -> LocalControlArm(self)
               [] ctl = <<"7", "b">> -> ModeArm(self, "AllNotesOff")
               [] ctl = <<"7", "c">> -> ModeArm(self, "OmniModeOff")
               [] ctl = <<"7", "d">> -> ModeArm(self, "OmniModeOn")
               [] ctl = <<"7", "e">> -> ModeArm(self, "MonoModeOn")
               [] ctl = <<"7", "f">> -> ModeArm(self, "PolyModeOn")
               [] OTHER -> TwoByteArm(self, status_hex, "ControlChange",
                                      "ControllerNumber", "ControllerValue")

\* the last arm: no data byte is read
UnknownArm(self, status_hex) ==
    IF ~ChannelOk(status_hex) THEN Panic
    ELSE Midi(Channel(status_hex), self.stamp, "Unknown", <<DataNone, DataNone>>)

\* Raw::parse
Parse(self) ==
    LET status_hex == EncodeHex(<<self.status>>)
        first == SubSeq(status_hex, 1, 1)
    IN  CASE first = <<"8">> -> TwoByteArm(self, status_hex, "NoteOff", "KeyNumber", "Velocity")
          [] first = <<"9">> -> TwoByteArm(self, status_hex, "NoteOn", "KeyNumber", "Velocity")
          [] first = <<"a">> -> TwoByteArm(self, status_hex, "PolyphonicKeyPressure",
                                           "KeyNumber", "PressureAmount")
          [] first = <<"b">> -> ControlChangeArm(self, status_hex)
          [] first = <<"c">> -> OneByteArm(self, status_hex, "ProgramChange", "ProgramNumber")
          [] first = <<"d">> -> OneByteArm(self, status_hex, "ChannelPressure", "PressureValue")
          [] first = <<"e">> -> TwoByteArm(self, status_hex, "PitchBend", "MSB", "LSB")
          [] OTHER -> UnknownArm(self, status_hex)

(***************************************************************************)
(* The decoder's specification: one raw message, decoded once.             *)
(***************************************************************************)
InitDecoder ==
    /\ pc = "call"
    /\ op = "parse"
    /\ build \in Builds
    /\ \E t \in 0..MaxStamp, s \in Byte, n \in 0..MaxDataLen :
           \E d \in DataVecs(n) : arg = RawNew(t, s, d)
    /\ res = <<>>

\* the receive callback's raw_message.parse()
DoParse ==
    /\ pc = "call"
    /\ op = "parse"
    /\ res' = Parse(arg)
    /\ pc' = "done"
    /\ UNCHANGED <<op, build, arg>>

NextDecoder == DoParse

SpecDecoder == InitDecoder /\ [][NextDecoder]_vars

(***************************************************************************)
(* The decoder's contract, stated from the classification tables.          *)
(***************************************************************************)
HighNibble(s) == s \div 16
LowNibble(s) == s % 16

\* the kind the table gives a high nibble
TableKind(h) ==
    CASE h = 8 -> "NoteOff"
      [] h = 9 -> "NoteOn"
      [] h = 10 -> "PolyphonicKeyPressure"
      [] h = 11 -> "ControlChange"
      [] h = 12 -> "ProgramChange"
      [] h = 13 -> "ChannelPressure"
      [] h = 14 -> "PitchBend"
      [] OTHER -> "Unknown"

\* the payload the table gives a kind other than Control Change
TablePayload(h, d0, d1) ==
    CASE h \in {8, 9} -> <<DataOf("KeyNumber", d0), DataOf("Velocity", d1)>>
      [] h = 10 -> <<DataOf("KeyNumber", d0), DataOf("PressureAmount", d1)>>
      [] h = 12 -> <<DataOf("ProgramNumber", d0), DataNone>>
      [] h = 13 -> <<DataOf("PressureValue", d0), DataNone>>
      [] h = 14 -> <<DataOf("MSB", d0), DataOf("LSB", d1)>>
      [] OTHER -> <<DataNone, DataNone>>

\* the marker the table gives a reserved controller number
TableMarker(c) ==
    CASE c = 121 -> "ResetAllControllers"
      [] c = 122 -> "LocalControl"
      [] c = 123 -> "AllNotesOff"
      [] c = 124 -> "OmniModeOff"
      [] c = 125 -> "OmniModeOn"
      [] c = 126 -> "MonoModeOn"
      [] c = 127 -> "PolyModeOn"

ParsedPair == pc = "done" /\ op = "parse" /\ Len(arg.data) = 2

\* C1: for every status byte and every data pair [d0, d1], parse returns one
\* event whose kind is the table's for the high nibble, whose channel is the
\* low nibble (channel-mode Control Change apart) and whose payload is the
\* table's for the kind.
C1_DecodeTable ==
    ParsedPair =>
        LET h == HighNibble(arg.status)
        IN  /\ res.tag = "ok"
            /\ res.status = TableKind(h)
            /\ h # 11 => /\ res.channel = LowNibble(arg.status)
                         /\ res.data = TablePayload(h, arg.data[1], arg.data[2])

\* C2: a Control Change with data [d0, d1] decodes, for d1 in 0x79..0x7F, to
\* channel 16 with the matching marker in the first slot and None in the
\* second, and for every other d1 to the low nibble's channel with
\* [ControllerNumber(d0), ControllerValue(d1)]; a decoded channel is in
\* 0..16 and is 16 only for the channel-mode messages.
C2_ControlChange ==
    /\ (ParsedPair /\ HighNibble(arg.status) = 11) =>
          /\ res.tag = "ok"
          /\ IF arg.data[2] \in 121..127
             THEN /\ res.channel = 16
                  /\ res.data[1].kind = TableMarker(arg.data[2])
                  /\ res.data[2] = DataNone
             ELSE /\ res.channel = LowNibble(arg.status)
                  /\ res.data = <<DataOf("ControllerNumber", arg.data[1]),
                                  DataOf("ControllerValue", arg.data[2])>>
    /\ (ParsedPair /\ res.tag = "ok") =>
          /\ res.channel \in 0..16
          /\ res.channel = 16 =>
                (HighNibble(arg.status) = 11 /\ arg.data[2] \in 121..127)

\* C3: for every status byte and every data vector of length 0, 1 or 2,
\* parse returns an event or reports a recoverable error; it never aborts
\* on a read of a data byte that is not there.
C3_ShortNeverAborts ==
    (pc = "done" /\ op = "parse" /\ Len(arg.data) <= 2) => res.tag \in {"ok", "error"}

(***************************************************************************)
(* music.rs: KEYBOARD, Letter, Note                                        *)
(***************************************************************************)
\* largest octave of the notes drawn, beside the extremes of u8 and i8
MaxOctave == 11
\* longest note token drawn
MaxTokenLen == 4

\* the key number of C0, the literal of from_key_number and to_key_number
BaseOffset == 21

KEYBOARD == <<"C", "Db", "D", "Eb", "E", "F", "Gb", "G", "Ab", "A", "Bb", "B">>

Letter == {KEYBOARD[i] : i \in 1..12}

\* Note::new
NoteNew(letter, octave) == [letter |-> letter, octave |-> octave]

\* Option<Note>
Some(x) == [tag |-> "some", val |-> x]
None == [tag |-> "none"]

\* KEYBOARD.iter().position(|&x| x == letter).unwrap()
Position(letter) == (CHOOSE i \in 1..12 : KEYBOARD[i] = letter) - 1

\* u8 subtraction a - b: the difference, or -1 where it overflows and the
\* overflow check panics
SubU8(a, b, bld) ==
    IF a - b >= 0 THEN a - b
    ELSE IF bld = "debug" THEN -1
    ELSE (a - b) + 256

\* from_key_number with the base offset off by one (x - 20)
FromKeyNumber_OffByOne(kn, bld) ==
    IF kn.kind # "KeyNumber" THEN None
    ELSE LET d == SubU8(kn.val, BaseOffset - 1, bld)
         IN  IF d < 0 THEN Panic
             ELSE Some([letter |-> KEYBOARD[(d % 12) + 1], octave |-> d \div 12])

\* Note::from_key_number
FromKeyNumber(kn, bld) ==
    IF kn.kind # "KeyNumber" THEN None
    ELSE LET d == SubU8(kn.val, BaseOffset, bld)
         IN  IF d < 0 THEN Panic
             ELSE Some([letter |-> KEYBOARD[(d % 12) + 1], octave |-> d \div 12])

\* Note::to_key_number
ToKeyNumber(self) == BaseOffset + self.octave * 12 + Position(self.letter)

\* `as i8` of a u8: the same bits, read as two's complement
AsI8(u) == IF u > 127 THEN u - 256 ELSE u

InI8(x) == -128 <= x /\ x <= 127
WrapI8(x) == ((x + 128) % 256) - 128

\* one checked i8 operation: state is <<value, panicked>>
StepI8(x, bld) ==
    IF InI8(x) THEN <<x, FALSE>>
    ELSE IF bld = "debug" THEN <<0, TRUE>>
    ELSE <<WrapI8(x), FALSE>>

\* Note::dist_to
DistTo(self, other, bld) ==
    LET octave_difference == StepI8(AsI8(self.octave) - AsI8(other.octave), bld)
        self_index == Position(self.letter)
        other_index == Position(other.letter)
        diff == StepI8(self_index - other_index, bld)
        prod == StepI8(octave_difference[1] * 12, bld)
        sum == StepI8(diff[1] + prod[1], bld)
        \* i8::abs overflows on i8::MIN only
        abs == IF sum[1] = -128
               THEN (IF bld = "debug" THEN <<0, TRUE>> ELSE <<-128, FALSE>>)
               ELSE <<(IF sum[1] < 0 THEN -sum[1] ELSE sum[1]), FALSE>>
    IN  IF octave_difference[2] \/ diff[2] \/ prod[2] \/ sum[2] \/ abs[2] THEN Panic
        \* try_into::<u8>().unwrap()
        ELSE IF abs[1] < 0 THEN Panic
        ELSE [tag |-> "ok", val |-> abs[1]]

\* the characters of the tokens drawn; FlatSign is U+266D, three bytes of
\* UTF-8, every other character is one byte
FlatSign == "U+266D"
TokenChars == {"A", "B", "C", "D", "E", "F", "G", "b", "0", "1", "2", "x", FlatSign}
Utf8Len(c) == IF c = FlatSign THEN 3 ELSE 1

\* the tokens of n characters
Tokens(n) == [1..n -> TokenChars]

\* str::len: the length in bytes
RECURSIVE StrLen(_)
StrLen(s) == IF s = <<>> THEN 0 ELSE Utf8Len(Head(s)) + StrLen(Tail(s))

\* byte index i of s is a character boundary
IsCharBoundary(s, i) == \E k \in 0..Len(s) : StrLen(SubSeq(s, 1, k)) = i

\* &s[from..to], read only where both are character boundaries
Slice(s, from, to) ==
    LET a == CHOOSE k \in 0..Len(s) : StrLen(SubSeq(s, 1, k)) = from
        b == CHOOSE k \in 0..Len(s) : StrLen(SubSeq(s, 1, k)) = to
    IN  SubSeq(s, a + 1, b)

DecChars == <<"0", "1", "2", "3", "4", "5", "6", "7", "8", "9">>

DecValue(c) ==
    IF \E i \in 1..10 : DecChars[i] = c
    THEN (CHOOSE i \in 1..10 : DecChars[i] = c) - 1
    ELSE -1

RECURSIVE DecFold(_, _)
DecFold(s, acc) ==
    IF s = <<>> THEN acc
    ELSE IF acc < 0 \/ DecValue(Head(s)) < 0 THEN -1
    ELSE IF acc * 10 + DecValue(Head(s)) > 255 THEN -1
    ELSE DecFold(Tail(s), acc * 10 + DecValue(Head(s)))

\* str::parse::<u8>: the value, or -1 for Err (empty, a lone sign, a
\* character that is no digit, a value above u8::MAX); one leading "+" is
\* accepted
ParseU8(s) ==
    LET digits == IF s # <<>> /\ Head(s) = "+" THEN Tail(s) ELSE s
    IN  IF digits = <<>> THEN -1 ELSE DecFold(digits, 0)

\* the string patterns of from_str's match, in the order of its arms
Spelling == <<<<"C">>, <<"D", "b">>, <<"D">>, <<"E", "b">>, <<"E">>, <<"F">>,
              <<"G", "b">>, <<"G">>, <<"A", "b">>, <<"A">>, <<"B", "b">>, <<"B">>>>

\* match letter_str { ... }
MatchLetter(letter_str) ==
    IF \E i \in 1..12 : Spelling[i] = letter_str
    THEN Some(KEYBOARD[CHOOSE i \in 1..12 : Spelling[i] = letter_str])
    ELSE None

\* Note::from_str
FromStr(s) ==
    LET len == StrLen(s)
    IN  \* s.len() - 1 overflows usize, or wraps to a range end past the end
        IF len = 0 THEN Panic
        \* &s[0..len-1] and &s[len-1..] split a character
        ELSE IF ~IsCharBoundary(s, len - 1) THEN Panic
        ELSE LET letter_str == Slice(s, 0, len - 1)
                 octave_str == Slice(s, len - 1, len)
                 letter == MatchLetter(letter_str)
             IN  IF letter = None THEN None
                 ELSE IF ParseU8(octave_str) < 0 THEN Panic
                 ELSE Some(NoteNew(letter.val, ParseU8(octave_str)))

(***************************************************************************)
(* The note arithmetic's specification: one call of one function.          *)
(***************************************************************************)
\* the octaves drawn: the low ones, and the extremes of i8 and u8
Octaves == (0..MaxOctave) \cup {127, 128, 255}
Notes == {NoteNew(l, o) : l \in Letter, o \in Octaves}

\* the Data values from_key_number is called on
KeyData == {DataOf("KeyNumber", x) : x \in Byte} \cup {DataOf("Velocity", 64), DataNone}

InitNote ==
    /\ pc = "call"
    /\ build \in Builds
    /\ res = <<>>
    /\ \/ /\ op = "from_key_number"
          /\ arg \in KeyData
       \/ /\ op = "dist_to"
          /\ \E a \in Notes, b \in Notes : arg = <<a, b>>
       \/ /\ op = "from_str"
          /\ \E n \in 0..MaxTokenLen : arg \in Tokens(n)

DoFromKeyNumber ==
    /\ pc = "call"
    /\ op = "from_key_number"
    /\ res' = FromKeyNumber(arg, build)
    /\ pc' = "done"
    /\ UNCHANGED <<op, build, arg>>

DoDistTo ==
    /\ pc = "call"
    /\ op = "dist_to"
    /\ res' = DistTo(arg[1], arg[2], build)
    /\ pc' = "done"
    /\ UNCHANGED <<op, build, arg>>

DoFromStr ==
    /\ pc = "call"
    /\ op = "from_str"
    /\ res' = FromStr(arg)
    /\ pc' = "done"
    /\ UNCHANGED <<op, build, arg>>

NextNote == DoFromKeyNumber \/ DoDistTo \/ DoFromStr

SpecNote == InitNote /\ [][NextNote]_vars

(***************************************************************************)
(* The note arithmetic's contract.                                         *)
(***************************************************************************)
KeyNumberCalled == pc = "done" /\ op = "from_key_number" /\ arg.kind = "KeyNumber"

\* C4: for every key number k from the base offset up (the test runs
\* 21..126), from_key_number returns the note of letter
\* KEYBOARD[(k - 21) mod 12] and octave (k - 21) div 12, and to_key_number
\* of that note is k again.
C4_KeyNumberRoundTrip ==
    (KeyNumberCalled /\ arg.val >= 21) =>
        /\ res.tag = "some"
        /\ res.val.letter = KEYBOARD[((arg.val - 21) % 12) + 1]
        /\ res.val.octave = (arg.val - 21) \div 12
        /\ ToKeyNumber(res.val) = arg.val

\* key number 60 = 21 + 3*12 + 3 came back as Eb3, which converts back to 60
C4_Witness ==
    /\ KeyNumberCalled
    /\ arg.val = 60
    /\ res = Some(NoteNew("Eb", 3))
    /\ ToKeyNumber(res.val) = 60

\* C10: for every key number below the base offset 21, from_key_number
\* returns an empty / error result instead of a note, and neither aborts
\* nor wraps around in k - 21.
C10_OutOfRangeRejected ==
    (KeyNumberCalled /\ arg.val < 21) => res.tag \in {"none", "error"}

Abs(x) == IF x < 0 THEN -x ELSE x

\* the linear semitone distance of two notes
LinearDistance(a, b) ==
    Abs((Position(a.letter) - Position(b.letter)) + 12 * (a.octave - b.octave))

\* C5: for all notes a and b, of any letters and any octaves of the octave
\* type, a.dist_to(b) returns the linear absolute semitone distance, without
\* overflow or abort, and so equals b.dist_to(a).
C5_LinearDistance ==
    (pc = "done" /\ op = "dist_to") =>
        /\ res.tag = "ok"
        /\ res.val = LinearDistance(arg[1], arg[2])
        /\ res = DistTo(arg[2], arg[1], build)

IsDigit(c) == c \in {DecChars[i] : i \in 1..10}

\* the value of a string of decimal digits
RECURSIVE Decimal(_)
Decimal(digits) ==
    IF digits = <<>> THEN 0
    ELSE 10 * Decimal(SubSeq(digits, 1, Len(digits) - 1))
         + ((CHOOSE i \in 1..10 : DecChars[i] = digits[Len(digits)]) - 1)

\* C6: for every token made of one of the 12 letter spellings followed by
\* one or more decimal digits, from_str returns the note of that letter
\* whose octave is the value of the whole digit suffix.
C6_TokenParsed ==
    (pc = "done" /\ op = "from_str") =>
        \A i \in 1..12 : \A k \in 1..(Len(arg) - 1) :
            (/\ SubSeq(arg, 1, k) = Spelling[i]
             /\ \A j \in (k + 1)..Len(arg) : IsDigit(arg[j]))
            => res = Some(NoteNew(KEYBOARD[i], Decimal(SubSeq(arg, k + 1, Len(arg)))))

(***************************************************************************)
(* music/scale.rs: Scale, with the Interval and the Note + Interval it     *)
(* uses                                                                    *)
(***************************************************************************)
\* longest interval sequence of the scales drawn beside the predefined ones
MaxScaleLen == 2
\* largest octave of the roots drawn
MaxRootOctave == 1
\* largest start index drawn (seven() starts at 6)
MaxStart == 6
\* largest step drawn (the degree chords step by 2)
MaxStep == 3
\* longest chord drawn (beyond twice the seven degrees of a predefined scale)
MaxChordLen == 15

\* enum Interval: a variant is its discriminant, the number of semitones
Unison == 0
MajorSecond == 2
MinorThird == 3
MajorThird == 4
Fourth == 5
Fifth == 7
MinorSixth == 8
MajorSixth == 9
MinorSeventh == 10
MajorSeventh == 11
Octave == 12
\* the largest variant: the major seventh one octave up
IntervalMax == 23

Interval == 0..IntervalMax

\* num::FromPrimitive::from_u32 for Interval: a discriminant that names no
\* variant gives None
FromU32(v) == IF v \in Interval THEN Some(v) ELSE None

\* Note + Interval
NoteAdd(note, interval) ==
    LET index == Position(note.letter) + interval
    IN  NoteNew(KEYBOARD[(index % 12) + 1], note.octave + (index \div 12))

\* Chord::new
ChordNew(notes) == [notes |-> notes]

\* Scale::new
ScaleNew(root, intervals) == [root |-> root, intervals |-> intervals]

MAJOR == <<Unison, MajorSecond, MajorThird, Fourth, Fifth, MajorSixth, MajorSeventh>>
MINOR == <<Unison, MajorSecond, MinorThird, Fourth, Fifth, MinorSixth, MinorSeventh>>
MINOR_HARMONIC == <<Unison, MajorSecond, MinorThird, Fourth, Fifth, MinorSixth, MajorSeventh>>

\* Scale::major, Scale::minor, Scale::minor_harmonic
ScaleMajor(root) == ScaleNew(root, MAJOR)
ScaleMinor(root) == ScaleNew(root, MINOR)
ScaleMinorHarmonic(root) == ScaleNew(root, MINOR_HARMONIC)

\* iter.filter_map(f).collect(): the values of the Some results, in order
RECURSIVE FilterMapOctaveUp(_)
FilterMapOctaveUp(intervals) ==
    IF intervals = <<>> THEN <<>>
    ELSE LET up == FromU32(Head(intervals) + 12)
         IN  (IF up = None THEN <<>> ELSE <<up.val>>) \o FilterMapOctaveUp(Tail(intervals))

\* Scale::build_by_steps
BuildBySteps(self, root, step, length) ==
    LET intervals_octave_up == FilterMapOctaveUp(self.intervals)
        intervals == self.intervals \o intervals_octave_up
    IN  \* Iterator::step_by asserts step != 0
        IF step = 0 THEN Panic
        \* the cycle of an empty iterator is empty
        ELSE IF intervals = <<>> THEN [tag |-> "ok", val |-> <<>>]
        ELSE [tag |-> "ok",
              val |-> [i \in 1..length |->
                         NoteAdd(self.root,
                                 intervals[((root + (i - 1) * step) % Len(intervals)) + 1])]]

\* Scale::one .. Scale::seven: degree k starts at k - 1 and steps by thirds
DegreeChord(self, degree, len) ==
    LET notes == BuildBySteps(self, degree - 1, 2, len)
    IN  IF notes = Panic THEN Panic ELSE [tag |-> "ok", val |-> ChordNew(notes.val)]

\* Scale::notes with each interval added to the note before it
ScaleNotes_Cumulative(self) ==
    [i \in 1..Len(self.intervals) |->
        NoteAdd(self.root, self.intervals[i] + (IF i > 1 THEN self.intervals[i - 1] ELSE 0))]

\* Scale::notes
ScaleNotes(self) ==
    [i \in 1..Len(self.intervals) |-> NoteAdd(self.root, self.intervals[i])]

(***************************************************************************)
(* The scale's specification: one call of one function.                    *)
(***************************************************************************)
\* the intervals of the scales drawn beside the predefined ones: two that
\* have an octave-up variant, and the largest variant, which has none
CustomIntervals == {Fifth, MajorSeventh, IntervalMax}

RECURSIVE IntervalSeqs(_)
IntervalSeqs(n) ==
    IF n = 0 THEN {<<>>}
    ELSE {Append(s, i) : s \in IntervalSeqs(n - 1), i \in CustomIntervals}

Roots == {NoteNew(l, o) : l \in {"C", "A"}, o \in 0..MaxRootOctave}

Scales ==
    {ScaleMajor(r) : r \in Roots} \cup {ScaleMinor(r) : r \in Roots}
    \cup {ScaleMinorHarmonic(r) : r \in Roots}
    \cup UNION {{ScaleNew(r, s) : r \in Roots, s \in IntervalSeqs(n)} : n \in 0..MaxScaleLen}

InitScale ==
    /\ pc = "call"
    /\ build \in Builds
    /\ res = <<>>
    /\ \/ /\ op = "add"
          /\ \E n \in Notes, i \in Interval : arg = [note |-> n, interval |-> i]
       \/ /\ op = "notes"
          /\ \E sc \in Scales : arg = [scale |-> sc]
       \/ /\ op = "build_by_steps"
          /\ \E sc \in Scales, d \in 0..MaxStart, st \in 0..MaxStep, l \in 0..MaxChordLen :
                arg = [scale |-> sc, root |-> d, step |-> st, length |-> l]
       \/ /\ op = "degree"
          /\ \E sc \in Scales, k \in 1..7, l \in 0..MaxChordLen :
                arg = [scale |-> sc, degree |-> k, len |-> l]

DoAdd ==
    /\ pc = "call"
    /\ op = "add"
    /\ res' = NoteAdd(arg.note, arg.interval)
    /\ pc' = "done"
    /\ UNCHANGED <<op, build, arg>>

DoNotes ==
    /\ pc = "call"
    /\ op = "notes"
    /\ res' = ScaleNotes(arg.scale)
    /\ pc' = "done"
    /\ UNCHANGED <<op, build, arg>>

DoBuildBySteps ==
    /\ pc = "call"
    /\ op = "build_by_steps"
    /\ res' = BuildBySteps(arg.scale, arg.root, arg.step, arg.length)
    /\ pc' = "done"
    /\ UNCHANGED <<op, build, arg>>

DoDegree ==
    /\ pc = "call"
    /\ op = "degree"
    /\ res' = DegreeChord(arg.scale, arg.degree, arg.len)
    /\ pc' = "done"
    /\ UNCHANGED <<op, build, arg>>

NextScale == DoAdd \/ DoNotes \/ DoBuildBySteps \/ DoDegree

SpecScale == InitScale /\ [][NextScale]_vars

(***************************************************************************)
(* The scale's contract.                                                   *)
(***************************************************************************)
\* C7: Note + Interval carries the octave for every note and every
\* interval: the sum has letter index (indexOf(letter) + semitones) mod 12
\* and octave + floor((indexOf(letter) + semitones) / 12), so its key number
\* is the operand's plus the semitones; every note of Scale::notes is the
\* root plus its interval, and the natural minor scale on A0 is A0, B0, C1,
\* D1, E1, F1, G1.
C7_AddCarriesOctave ==
    /\ (pc = "done" /\ op = "add") =>
          /\ Position(res.letter) = (Position(arg.note.letter) + arg.interval) % 12
          /\ res.octave = arg.note.octave + ((Position(arg.note.letter) + arg.interval) \div 12)
          /\ ToKeyNumber(res) = ToKeyNumber(arg.note) + arg.interval
    /\ (pc = "done" /\ op = "notes") =>
          /\ Len(res) = Len(arg.scale.intervals)
          /\ \A i \in 1..Len(res) :
                ToKeyNumber(res[i]) = ToKeyNumber(arg.scale.root) + arg.scale.intervals[i]
          /\ arg.scale = ScaleMinor(NoteNew("A", 0)) =>
                res = <<NoteNew("A", 0), NoteNew("B", 0), NoteNew("C", 1), NoteNew("D", 1),
                        NoteNew("E", 1), NoteNew("F", 1), NoteNew("G", 1)>>

\* the notes of the natural minor scale on A0 were built, its third degree
\* carried into octave 1
C7_Witness ==
    /\ pc = "done"
    /\ op = "notes"
    /\ arg.scale = ScaleMinor(NoteNew("A", 0))
    /\ res[2] = NoteNew("B", 0)
    /\ res[3] = NoteNew("C", 1)

\* S followed by every value of S plus 12
Doubled(S) == S \o [i \in 1..Len(S) |-> S[i] + 12]

\* the chord of length L from start index d by step over the doubled S
SteppedChord(root, S, d, step, L) ==
    [i \in 1..L |-> NoteAdd(root, Doubled(S)[((d + (i - 1) * step) % (2 * Len(S))) + 1])]

Letters(notes) == [i \in 1..Len(notes) |-> notes[i].letter]

\* C8: for a scale of n >= 1 intervals S, any start index d, any step >= 1
\* and any length L, build_by_steps(d, step, L) is the L notes
\* root + D[(d + i*step) mod 2n], D being S followed by every value of S
\* plus 12; one()..seven() are the case d = degree - 1, step = 2; the major
\* scale on C0 gives the letters C, E, G for one(3) and D, F, A for two(3).
C8_DegreeChord ==
    /\ (/\ pc = "done"
        /\ op = "build_by_steps"
        /\ Len(arg.scale.intervals) >= 1
        /\ arg.step >= 1) =>
          /\ res.tag = "ok"
          /\ Len(res.val) = arg.length
          /\ res.val = SteppedChord(arg.scale.root, arg.scale.intervals,
                                    arg.root, arg.step, arg.length)
    /\ (pc = "done" /\ op = "degree" /\ Len(arg.scale.intervals) >= 1) =>
          /\ res.tag = "ok"
          /\ res.val.notes = SteppedChord(arg.scale.root, arg.scale.intervals,
                                          arg.degree - 1, 2, arg.len)
          /\ (arg.scale = ScaleMajor(NoteNew("C", 0)) /\ arg.len = 3) =>
                /\ arg.degree = 1 => Letters(res.val.notes) = <<"C", "E", "G">>
                /\ arg.degree = 2 => Letters(res.val.notes) = <<"D", "F", "A">>

(***************************************************************************)
(* Chord: inversion and transposition                                      *)
(***************************************************************************)
\* most notes of the chords drawn
MaxChordNotes == 3
\* most inversions asked of one call
MaxInvert == 4

\* one inversion that re-appends the first note without raising it
InvertOnce_NoRaise(notes) == Tail(notes) \o <<Head(notes)>>

\* one inversion: the first note leaves the front and is appended one octave
\* higher
InvertOnce(notes) == Tail(notes) \o <<NoteAdd(Head(notes), Octave)>>

RECURSIVE InvertTimes(_, _)
InvertTimes(notes, n) == IF n = 0 THEN notes ELSE InvertTimes(InvertOnce(notes), n - 1)

\* Chord::invert: n successive inversions, as a new chord
Invert(self, n) == ChordNew(InvertTimes(self.notes, n))

\* Chord + Interval: every note transposed, as a new chord
ChordAdd(self, interval) ==
    ChordNew([i \in 1..Len(self.notes) |-> NoteAdd(self.notes[i], interval)])

(***************************************************************************)
(* The chord's specification: one call of one function.                    *)
(***************************************************************************)
\* the notes of the chords drawn: the example's C0, E0, G0 and a note at
\* the top of its octave
ChordNotes == {NoteNew("C", 0), NoteNew("E", 0), NoteNew("G", 0), NoteNew("B", 1)}

RECURSIVE NoteSeqs(_)
NoteSeqs(n) ==
    IF n = 0 THEN {<<>>}
    ELSE {Append(s, x) : s \in NoteSeqs(n - 1), x \in ChordNotes}

InitChord ==
    /\ pc = "call"
    /\ build \in Builds
    /\ res = <<>>
    /\ \E len \in 1..MaxChordNotes : \E notes \in NoteSeqs(len) :
          \/ /\ op = "invert"
             /\ \E n \in 0..MaxInvert : arg = [chord |-> ChordNew(notes), n |-> n]
          \/ /\ op = "transpose"
             /\ \E i \in {Fifth, Octave} : arg = [chord |-> ChordNew(notes), interval |-> i]

DoInvert ==
    /\ pc = "call"
    /\ op = "invert"
    /\ res' = Invert(arg.chord, arg.n)
    /\ pc' = "done"
    /\ UNCHANGED <<op, build, arg>>

DoTranspose ==
    /\ pc = "call"
    /\ op = "transpose"
    /\ res' = ChordAdd(arg.chord, arg.interval)
    /\ pc' = "done"
    /\ UNCHANGED <<op, build, arg>>

NextChord == DoInvert \/ DoTranspose

SpecChord == InitChord /\ [][NextChord]_vars

(***************************************************************************)
(* The chord's contract.                                                   *)
(***************************************************************************)
OctaveUp(note) == NoteNew(note.letter, note.octave + 1)

\* C9: invert(k) returns a new chord of as many notes as the operand and
\* leaves the operand as it was; one inversion moves the first note to the
\* end, one octave higher; as many inversions as the chord has notes return
\* the original notes in their original order, each one octave higher.
C9_InvertRotates ==
    [][(pc = "call" /\ op = "invert") =>
          LET notes == arg.chord.notes
              out == res'.notes
          IN  /\ arg' = arg
              /\ Len(out) = Len(notes)
              /\ arg.n = 1 =>
                    /\ out[Len(out)] = OctaveUp(notes[1])
                    /\ \A i \in 1..(Len(notes) - 1) : out[i] = notes[i + 1]
              /\ arg.n = Len(notes) =>
                    out = [i \in 1..Len(notes) |-> OctaveUp(notes[i])]]_vars

\* the example's chord C0, E0, G0 was inverted three times and came back as
\* C1, E1, G1
C9_Witness ==
    /\ pc = "done"
    /\ op = "invert"
    /\ arg = [chord |-> ChordNew(<<NoteNew("C", 0), NoteNew("E", 0), NoteNew("G", 0)>>), n |-> 3]
    /\ res = ChordNew(<<NoteNew("C", 1), NoteNew("E", 1), NoteNew("G", 1)>>)

(***************************************************************************)
(* music.rs: Chord::from_str, and the specification of the token parsers   *)
(***************************************************************************)
\* most tokens of the token lists drawn
MaxTokens == 3

\* Chord::from_str: every token parsed and unwrapped, in order; the first
\* token from_str aborts on, or has no note for, aborts the call
ChordFromStr(notes) ==
    IF \E i \in 1..Len(notes) : FromStr(notes[i]).tag # "some"
    THEN Panic
    ELSE [tag |-> "ok", val |-> ChordNew([i \in 1..Len(notes) |-> FromStr(notes[i]).val])]

\* the tokens of the lists drawn: the tests' C0, E1, G2, and a token with no
\* characters, with no octave, with an octave that is no digit, with a
\* prefix that is no letter
ListTokens == {<<"C", "0">>, <<"E", "1">>, <<"G", "2">>,
               <<>>, <<"C">>, <<"C", "x">>, <<"x", "0">>}

InitTokens ==
    /\ pc = "call"
    /\ build \in Builds
    /\ res = <<>>
    /\ \/ /\ op = "from_str"
          /\ \E n \in 0..MaxTokenLen : arg \in Tokens(n)
       \/ /\ op = "chord_from_str"
          /\ \E n \in 0..MaxTokens : arg \in [1..n -> ListTokens]

DoChordFromStr ==
    /\ pc = "call"
    /\ op = "chord_from_str"
    /\ res' = ChordFromStr(arg)
    /\ pc' = "done"
    /\ UNCHANGED <<op, build, arg>>

NextTokens == DoFromStr \/ DoChordFromStr

SpecTokens == InitTokens /\ [][NextTokens]_vars

(***************************************************************************)
(* The token parsers' contract.                                            *)
(***************************************************************************)
\* a token is one of the 12 letter spellings followed by one or more
\* decimal digits
WellFormed(token) ==
    \E i \in 1..12 : \E k \in 1..(Len(token) - 1) :
        /\ SubSeq(token, 1, k) = Spelling[i]
        /\ \A j \in (k + 1)..Len(token) : IsDigit(token[j])

\* C11: for every token that is no letter spelling followed by digits (the
\* empty token, "C", "Cx" among them) from_str returns an error / None and
\* does not abort; Chord::from_str on a list holding such a token fails with
\* a recoverable error, neither dropping the entry nor aborting.
C11_MalformedRecoverable ==
    /\ (pc = "done" /\ op = "from_str" /\ ~WellFormed(arg)) =>
          res.tag \in {"none", "error"}
    /\ (/\ pc = "done"
        /\ op = "chord_from_str"
        /\ \E i \in 1..Len(arg) : ~WellFormed(arg[i])) =>
          res.tag = "error"

(***************************************************************************)
(* midi.rs: MidiSend for Note and for Chord.  A call is a sequence of      *)
(* steps: res.sent is what the call has done to the output connection and  *)
(* the clock so far, in order; res.i counts the notes the running loop has *)
(* passed.                                                                 *)
(***************************************************************************)
\* `status as u8` of a Status variant: its discriminant, the position in
\* the declaration
StatusAsU8(status) == (CHOOSE i \in 1..Len(Status) : Status[i] = status) - 1

\* conn_out.send(&bytes), its result dropped by `let _ =`
SendEvent(bytes) == [kind |-> "send", bytes |-> bytes]
\* sleep(Duration::from_millis(duration))
SleepEvent(duration) == [kind |-> "sleep", millis |-> duration]

\* the durations and velocities of send()'s calls
Durations == {100, 500}
Velocities == {100, 127}

InitSend ==
    /\ pc = "call"
    /\ build \in Builds
    /\ res = [sent |-> <<>>, i |-> 0]
    /\ \E d \in Durations, v \in Velocities :
          \/ /\ op = "note_send_midi"
             /\ \E n \in ChordNotes : arg = [self |-> n, duration |-> d, velocity |-> v]
          \/ /\ op = "chord_send_midi"
             /\ \E len \in 0..MaxChordNotes : \E notes \in NoteSeqs(len) :
                   arg = [self |-> ChordNew(notes), duration |-> d, velocity |-> v]

\* Note::send_midi, first send
NoteSendOn ==
    /\ pc = "call"
    /\ op = "note_send_midi"
    /\ res' = [res EXCEPT !.sent = Append(@,
                  SendEvent(<<StatusAsU8("NoteOn"), ToKeyNumber(arg.self), arg.velocity>>))]
    /\ pc' = "sleep"
    /\ UNCHANGED <<op, build, arg>>

\* Note::send_midi, the sleep
NoteSleep ==
    /\ pc = "sleep"
    /\ op = "note_send_midi"
    /\ res' = [res EXCEPT !.sent = Append(@, SleepEvent(arg.duration))]
    /\ pc' = "off"
    /\ UNCHANGED <<op, build, arg>>

\* Note::send_midi, second send and return
NoteSendOff ==
    /\ pc = "off"
    /\ op = "note_send_midi"
    /\ res' = [res EXCEPT !.sent = Append(@,
                  SendEvent(<<StatusAsU8("NoteOff"), ToKeyNumber(arg.self), arg.velocity>>))]
    /\ pc' = "done"
    /\ UNCHANGED <<op, build, arg>>

\* Chord::send_midi, one pass of the first loop
ChordSendOn ==
    /\ pc = "call"
    /\ op = "chord_send_midi"
    /\ res.i < Len(arg.self.notes)
    /\ res' = [sent |-> Append(res.sent,
                  SendEvent(<<144, ToKeyNumber(arg.self.notes[res.i + 1]), arg.velocity>>)),
               i |-> res.i + 1]
    /\ UNCHANGED <<pc, op, build, arg>>

\* Chord::send_midi, the sleep between the loops
ChordSleep ==
    /\ pc = "call"
    /\ op = "chord_send_midi"
    /\ res.i = Len(arg.self.notes)
    /\ res' = [sent |-> Append(res.sent, SleepEvent(arg.duration)), i |-> 0]
    /\ pc' = "off"
    /\ UNCHANGED <<op, build, arg>>

\* Chord::send_midi, one pass of the second loop
ChordSendOff ==
    /\ pc = "off"
    /\ op = "chord_send_midi"
    /\ res.i < Len(arg.self.notes)
    /\ res' = [sent |-> Append(res.sent,
                  SendEvent(<<128, ToKeyNumber(arg.self.notes[res.i + 1]), arg.velocity>>)),
               i |-> res.i + 1]
    /\ UNCHANGED <<pc, op, build, arg>>

\* Chord::send_midi, the return after the second loop
ChordReturn ==
    /\ pc = "off"
    /\ op = "chord_send_midi"
    /\ res.i = Len(arg.self.notes)
    /\ pc' = "done"
    /\ UNCHANGED <<op, build, arg, res>>

NextSend ==
    \/ NoteSendOn \/ NoteSleep \/ NoteSendOff
    \/ ChordSendOn \/ ChordSleep \/ ChordSendOff \/ ChordReturn

SpecSend == InitSend /\ [][NextSend]_vars

(***************************************************************************)
(* The sender's contract.                                                  *)
(***************************************************************************)
\* the decoder's reading of three bytes sent: message[0] is the status,
\* message[1..] the data
Decoded(bytes) == Parse(RawNew(0, bytes[1], Tail(bytes)))

\* the event is a send of [status, key, velocity] that the decoder reads as
\* kind with that key number
IsNoteMessage(event, status, kind, key, velocity) ==
    /\ event = SendEvent(<<status, key, velocity>>)
    /\ Decoded(event.bytes).tag = "ok"
    /\ Decoded(event.bytes).status = kind
    /\ Decoded(event.bytes).data[1] = DataOf("KeyNumber", key)

\* C12: a finished send of a Note or a Chord has emitted, in chord order,
\* one note-on [0x90, key, velocity] per note, then slept, then emitted one
\* note-off [0x80, key, velocity] per note; the decoder reads the messages
\* as NoteOn and NoteOff with those key numbers.
C12_SendOrdering ==
    (pc = "done" /\ op \in {"note_send_midi", "chord_send_midi"}) =>
        LET notes == IF op = "note_send_midi" THEN <<arg.self>> ELSE arg.self.notes
            n == Len(notes)
        IN  /\ Len(res.sent) = 2 * n + 1
            /\ res.sent[n + 1] = SleepEvent(arg.duration)
            /\ \A i \in 1..n :
                  /\ IsNoteMessage(res.sent[i], 144, "NoteOn",
                                   ToKeyNumber(notes[i]), arg.velocity)
                  /\ IsNoteMessage(res.sent[n + 1 + i], 128, "NoteOff",
                                   ToKeyNumber(notes[i]), arg.velocity)

(***************************************************************************)
(* The library as a whole: a call of any of its functions.                 *)
(***************************************************************************)
Init == InitDecoder \/ InitNote \/ InitScale \/ InitChord \/ InitTokens \/ InitSend

Next == NextDecoder \/ NextNote \/ NextScale \/ NextChord \/ NextTokens \/ NextSend

Spec == Init /\ [][Next]_vars

====
